---- MODULE Spec2Model ----
(***************************************************************************)
(* State-machine model of the WebSocket chat relay (server.js): the        *)
(* connection registry `clients`, the broadcast helpers, the presence      *)
(* events and the solo bot with its idle timer.                            *)
(*                                                                         *)
(* Every handler of the server (connection, message, close, error, the    *)
(* setInterval callback) runs to completion on one thread, so each is one  *)
(* action.  A handler is written as a composition of state transformers   *)
(* over a record `s` holding the server's globals plus `out`, the list of  *)
(* events the handler has emitted so far, in emission order.               *)
(*                                                                         *)
(* A text is a sequence of strings whose concatenation it stands for:      *)
(* client input is given one character per element, so that trim(),        *)
(* slice(), includes() and length are computed as the code computes them;  *)
(* a fixed line of the Bot is a single element.                            *)
(***************************************************************************)
EXTENDS Integers, Sequences, FiniteSets, TLC

\* Number of WebSocket connections ever accepted in a behaviour.
MaxConns == 3

\* botIdleTimer = null (server.js:65)
NullTimer == 0

\* desired.slice(0, 24) (server.js:220)
NameMax == 24

\* body.slice(0, 2000) (server.js:237)
ChatMax == 2000

(***************************************************************************)
(* Strings                                                                 *)
(***************************************************************************)
Digit(d) == CASE d = 0 -> "0" [] d = 1 -> "1" [] d = 2 -> "2" [] d = 3 -> "3"
              [] d = 4 -> "4" [] d = 5 -> "5" [] d = 6 -> "6" [] d = 7 -> "7"
              [] d = 8 -> "8" [] d = 9 -> "9"

RECURSIVE NumToStr(_)
\* `${id}`: the decimal digits of a non-negative integer.
NumToStr(n) == IF n < 10 THEN <<Digit(n)>> ELSE NumToStr(n \div 10) \o <<Digit(n % 10)>>

\* `user-${id}` (server.js:190, 220)
defaultName(id) == <<"u", "s", "e", "r", "-">> \o NumToStr(id)

\* Characters String.prototype.trim removes (those the inputs below use).
IsSpace(c) == c \in {" ", "\t", "\n"}

RECURSIVE trimStart(_)
trimStart(str) == IF str = << >> THEN << >>
                  ELSE IF IsSpace(Head(str)) THEN trimStart(Tail(str)) ELSE str

RECURSIVE trimEnd(_)
trimEnd(str) == IF str = << >> THEN << >>
                ELSE IF IsSpace(str[Len(str)]) THEN trimEnd(SubSeq(str, 1, Len(str) - 1))
                ELSE str

\* String.prototype.trim
trim(str) == trimEnd(trimStart(str))

\* str.slice(0, n) for n >= 0
slice0(str, n) == SubSeq(str, 1, IF Len(str) < n THEN Len(str) ELSE n)

Repeat(c, n) == [i \in 1..n |-> c]

(***************************************************************************)
(* State                                                                   *)
(***************************************************************************)
VARIABLES
  readyState,    \* ws.readyState of every WebSocket object, "NEW" before it is accepted
  clients,       \* the Map clients, in insertion order: <<[ws, id, name], ...>>
  nextId,        \* let nextId
  botActive,     \* let botActive
  botIdleTimer,  \* let botIdleTimer: NullTimer or the handle setInterval returned
  timers,        \* the interval handles that are scheduled and not cleared
  out,           \* the events emitted by the last handler, in order
  handler,       \* the handler that ran last and its arguments
  installedOver, \* the value botIdleTimer held at each setInterval call of the last handler
  firstRecv,     \* history: type of the first event ever delivered to each socket
  soloStarts,    \* history: per session id, how often the Bot went Active with it alone
  lastBotPresence, \* history: action of the last presence event of the Bot, "none" at first
  lastRoster     \* history: per OPEN socket, the roster of the last roster event sent to it

vars == <<readyState, clients, nextId, botActive, botIdleTimer, timers, out, handler,
          installedOver, firstRecv, soloStarts, lastBotPresence, lastRoster>>

\* The WebSocket objects; the server accepts them in index order.
Sockets == {<<"ws", k>> : k \in 1..MaxConns}

\* const BOT = { id: 0, name: 'BOT-NEON' }
BOT == [id |-> 0, name |-> <<"B", "O", "T", "-", "N", "E", "O", "N">>]

\* The four idle prompts (server.js:128-133), by index.
prompts == << <<"Open a second tab to simulate another user joining.">>,
             <<"Try: /idea for a next feature suggestion.">>,
             <<"Try: /ping">>,
             <<"Want rooms next? (e.g., /join general)">> >>

\* The introductory line of startBotIfNeeded (server.js:119).
IntroLine == <<"Signal acquired. You're solo. Type /help for commands, or send any message and I'll respond.">>

\* The globals a handler reads and writes, as one record.
Globals == [readyState |-> readyState, clients |-> clients, nextId |-> nextId,
            botActive |-> botActive, botIdleTimer |-> botIdleTimer, timers |-> timers,
            out |-> << >>, installedOver |-> << >>]

(***************************************************************************)
(* Registry helpers                                                        *)
(***************************************************************************)
\* clients.keys(), in Map order
keys(s) == [i \in 1..Len(s.clients) |-> s.clients[i].ws]

\* clients.has(ws)
has(s, ws) == \E i \in 1..Len(s.clients) : s.clients[i].ws = ws

\* clients.get(ws): the {id, name} object the connection's closure calls `client`
get(s, ws) == LET i == CHOOSE j \in 1..Len(s.clients) : s.clients[j].ws = ws
              IN [id |-> s.clients[i].id, name |-> s.clients[i].name]

\* clients.set(ws, client): a new key goes last, an existing key keeps its place
set(s, ws, client) ==
  IF has(s, ws)
  THEN [s EXCEPT !.clients = [i \in 1..Len(s.clients) |->
                                IF s.clients[i].ws = ws
                                THEN [ws |-> ws, id |-> client.id, name |-> client.name]
                                ELSE s.clients[i]]]
  ELSE [s EXCEPT !.clients = Append(@, [ws |-> ws, id |-> client.id, name |-> client.name])]

\* clients.delete(ws)
delete(s, ws) == [s EXCEPT !.clients = SelectSeq(@, LAMBDA c : c.ws # ws)]

\* getOnlineList()
getOnlineList(s) == [i \in 1..Len(s.clients) |->
                       [id |-> s.clients[i].id, name |-> s.clients[i].name]]

\* isRealClient(c)
isRealClient(c) == c.id > 0

\* realClientCount()
realClientCount(s) == Len(SelectSeq(s.clients, isRealClient))

\* onlineWithBot()
onlineWithBot(s) == <<[id |-> BOT.id, name |-> BOT.name]>> \o getOnlineList(s)

\* botActive ? onlineWithBot() : getOnlineList()
rosterNow(s) == IF s.botActive THEN onlineWithBot(s) ELSE getOnlineList(s)

(***************************************************************************)
(* Broadcast hub.  An emitted event is recorded with the sockets ws.send   *)
(* was called on, in call order, with the helper that emitted it and the   *)
(* socket that helper was given, and with the registry and Bot state at    *)
(* the moment of emission.                                                 *)
(***************************************************************************)
\* No socket: the `arg` of broadcast, the `ws` of a handler that has none.
NoSocket == <<"ws", 0>>

emit(s, obj, to, via, arg) ==
  [s EXCEPT !.out = Append(@, [obj |-> obj, to |-> to, via |-> via, arg |-> arg,
                               clientsAt |-> s.clients, botAt |-> s.botActive])]

\* ws.readyState === WebSocket.OPEN
isOpen(s, ws) == s.readyState[ws] = "OPEN"

\* Mutant of broadcast: ws.send is called whatever the readyState.
broadcast_IgnoreReadyState(s, obj) == emit(s, obj, keys(s), "broadcast", NoSocket)

\* broadcast(obj)
broadcast(s, obj) ==
  emit(s, obj, SelectSeq(keys(s), LAMBDA ws : isOpen(s, ws)), "broadcast", NoSocket)

\* broadcastExcept(sender, obj)
broadcastExcept(s, sender, obj) ==
  emit(s, obj, SelectSeq(keys(s), LAMBDA ws : ws # sender /\ isOpen(s, ws)),
       "broadcastExcept", sender)

\* send(ws, obj)
send(s, ws, obj) == emit(s, obj, IF isOpen(s, ws) THEN <<ws>> ELSE << >>, "send", ws)

(***************************************************************************)
(* Solo bot                                                                *)
(***************************************************************************)
\* Mutant of botPresence: the roster is onlineWithBot() for a leave too.
botPresence_AlwaysWithBot(s, action) ==
  broadcast(s, [type |-> "presence", action |-> action,
                user |-> [id |-> BOT.id, name |-> BOT.name],
                online |-> onlineWithBot(s)])

\* botPresence(action)
botPresence(s, action) ==
  broadcast(s, [type |-> "presence", action |-> action,
                user |-> [id |-> BOT.id, name |-> BOT.name],
                online |-> IF action = "leave" THEN getOnlineList(s) ELSE onlineWithBot(s)])

\* botChat(body)
botChat(s, body) ==
  broadcast(s, [type |-> "chat", from |-> [id |-> BOT.id, name |-> BOT.name], body |-> body])

\* Mutant of clearIdleTimer: the handle is forgotten without clearInterval.
clearIdleTimer_NoClear(s) == [s EXCEPT !.botIdleTimer = NullTimer]

\* clearInterval(botIdleTimer); botIdleTimer = null
clearIdleTimer(s) ==
  IF s.botIdleTimer # NullTimer
  THEN [s EXCEPT !.timers = @ \ {s.botIdleTimer}, !.botIdleTimer = NullTimer]
  ELSE s

\* Mutant of stopBotIfNeeded: the interval is left running.
stopBotIfNeeded_NoTimerClear(s) ==
  IF s.botActive THEN botPresence([s EXCEPT !.botActive = FALSE], "leave") ELSE s

\* Mutant of stopBotIfNeeded: the leave is announced whether or not the Bot was Active.
stopBotIfNeeded_AlwaysLeave(s) ==
  LET s1 == clearIdleTimer(s)
  IN botPresence([s1 EXCEPT !.botActive = FALSE], "leave")

\* stopBotIfNeeded()
stopBotIfNeeded(s) ==
  LET s1 == clearIdleTimer(s)
  IN IF s1.botActive THEN botPresence([s1 EXCEPT !.botActive = FALSE], "leave") ELSE s1

\* botIdleTimer = setInterval(...): a handle distinct from every live one
setIdleTimer(s) ==
  LET t == CHOOSE n \in 1..(Cardinality(s.timers) + 1) : n \notin s.timers
  IN [s EXCEPT !.botIdleTimer = t, !.timers = @ \cup {t},
               !.installedOver = Append(@, s.botIdleTimer)]

\* Mutant of startBotIfNeeded: the guard lets any non-empty registry through.
startBotIfNeeded_AnyCount(s) ==
  IF realClientCount(s) < 1 THEN s
  ELSE IF s.botActive THEN s
  ELSE setIdleTimer(botChat(botPresence([s EXCEPT !.botActive = TRUE], "join"), IntroLine))

\* startBotIfNeeded()
startBotIfNeeded(s) ==
  IF realClientCount(s) # 1 THEN s
  ELSE IF s.botActive THEN s
  ELSE setIdleTimer(botChat(botPresence([s EXCEPT !.botActive = TRUE], "join"), IntroLine))

\* Mutant of idleTick: the callback does not re-check the Bot's state.
idleTick_NoRecheck(s, p) == botChat(s, prompts[p])

\* the setInterval callback (server.js:122-135); p is Math.floor(Math.random() * 4) + 1
idleTick(s, p) ==
  IF ~s.botActive THEN s
  ELSE IF realClientCount(s) # 1 THEN stopBotIfNeeded(s)
  ELSE botChat(s, prompts[p])

(***************************************************************************)
(* Bot replies                                                             *)
(***************************************************************************)
UpperCase == <<"A","B","C","D","E","F","G","H","I","J","K","L","M",
               "N","O","P","Q","R","S","T","U","V","W","X","Y","Z">>
LowerCase == <<"a","b","c","d","e","f","g","h","i","j","k","l","m",
               "n","o","p","q","r","s","t","u","v","w","x","y","z">>

\* Mutant of toLowerCase: the text is returned as it is.
toLowerCase_Identity(str) == str

\* String.prototype.toLowerCase
toLowerCase(str) == [i \in 1..Len(str) |->
                       IF \E k \in 1..26 : UpperCase[k] = str[i]
                       THEN LowerCase[CHOOSE k \in 1..26 : UpperCase[k] = str[i]]
                       ELSE str[i]]

\* String.prototype.includes
includes(str, pat) == \E i \in 1..(Len(str) - Len(pat) + 1) :
                        SubSeq(str, i, i + Len(pat) - 1) = pat

\* String.prototype.endsWith
endsWith(str, pat) == /\ Len(str) >= Len(pat)
                      /\ SubSeq(str, Len(str) - Len(pat) + 1, Len(str)) = pat

\* t.length > 140 (server.js:180)
ClipMax == 140

\* botReply(text).  The ellipsis and the dash of the default reply are written
\* in ASCII.
botReply(s, text) ==
  LET t == trim(text)
      lower == toLowerCase(t)
      clip == IF Len(t) > ClipMax THEN slice0(t, ClipMax) \o <<"...">> ELSE t
  IN IF t = << >> THEN s
     ELSE IF t = <<"/", "h", "e", "l", "p">>
       THEN botChat(s, <<"Commands: /help, /ping, /about, /idea">>)
     ELSE IF t = <<"/", "p", "i", "n", "g">>
       THEN botChat(s, <<"pong">>)
     ELSE IF t = <<"/", "a", "b", "o", "u", "t">>
       THEN botChat(s, <<"I'm a lightweight in-memory bot (no external API). I activate only when you're the only real user online.">>)
     ELSE IF t = <<"/", "i", "d", "e", "a">>
       THEN botChat(s, <<"Next upgrades: rooms + message history (Redis) + typing indicators + basic moderation/rate limiting.">>)
     ELSE IF includes(lower, <<"d", "e", "p", "l", "o", "y">>)
             \/ includes(lower, <<"r", "e", "n", "d", "e", "r">>)
       THEN botChat(s, <<"Deploy tip: ensure server listens on process.env.PORT and the client uses wss:// on https:// (your UI already does).">>)
     ELSE IF includes(lower, <<"b", "u", "g">>) \/ includes(lower, <<"e", "r", "r", "o", "r">>)
       THEN botChat(s, <<"Paste the exact error text + where it occurs and I'll pinpoint the fix.">>)
     ELSE IF includes(lower, <<"h", "e", "l", "l", "o">>) \/ includes(lower, <<"h", "i">>)
       THEN botChat(s, <<"Hello. Your terminal UI is strong. Want me to help write a recruiter-grade README and resume bullet?">>)
     ELSE IF endsWith(t, <<"?">>)
       THEN botChat(s, <<"Good question. Give me one more detail (context or constraint) and I'll answer precisely.">>)
     ELSE botChat(s, <<"Acknowledged: \"">> \o clip
                      \o <<"\" - do you want to iterate on UI, add rooms, or add persistence next?">>)

(***************************************************************************)
(* WebSocket handlers                                                      *)
(***************************************************************************)
\* Mutant of connectionHandler: nextId is read but not incremented.
connectionHandler_NoIncrement(s, ws) ==
  LET id == s.nextId
      client == [id |-> id, name |-> defaultName(id)]
      s1 == set(s, ws, client)
      s2 == send(s1, ws, [type |-> "welcome", you |-> client, online |-> rosterNow(s1)])
      s3 == broadcastExcept(s2, ws, [type |-> "presence", action |-> "join",
                                     user |-> client, online |-> rosterNow(s2)])
  IN startBotIfNeeded(stopBotIfNeeded(s3))

\* Mutant of connectionHandler: the join is broadcast to everyone, the new
\* connection included.
connectionHandler_JoinToAll(s, ws) ==
  LET id == s.nextId
      client == [id |-> id, name |-> defaultName(id)]
      s1 == set([s EXCEPT !.nextId = @ + 1], ws, client)
      s2 == send(s1, ws, [type |-> "welcome", you |-> client, online |-> rosterNow(s1)])
      s3 == broadcast(s2, [type |-> "presence", action |-> "join",
                           user |-> client, online |-> rosterNow(s2)])
  IN startBotIfNeeded(stopBotIfNeeded(s3))

\* Mutant of connectionHandler: the Bot is not deactivated before the re-check.
connectionHandler_NoStop(s, ws) ==
  LET id == s.nextId
      client == [id |-> id, name |-> defaultName(id)]
      s1 == set([s EXCEPT !.nextId = @ + 1], ws, client)
      s2 == send(s1, ws, [type |-> "welcome", you |-> client, online |-> rosterNow(s1)])
      s3 == broadcastExcept(s2, ws, [type |-> "presence", action |-> "join",
                                     user |-> client, online |-> rosterNow(s2)])
  IN startBotIfNeeded(s3)

\* wss.on('connection', (ws) => ...) up to the bot re-evaluation (server.js:188-208)
connectionHandler(s, ws) ==
  LET id == s.nextId
      client == [id |-> id, name |-> defaultName(id)]
      s1 == set([s EXCEPT !.nextId = @ + 1], ws, client)
      s2 == send(s1, ws, [type |-> "welcome", you |-> client, online |-> rosterNow(s1)])
      s3 == broadcastExcept(s2, ws, [type |-> "presence", action |-> "join",
                                     user |-> client, online |-> rosterNow(s2)])
  IN startBotIfNeeded(stopBotIfNeeded(s3))

\* Mutant of setNameHandler: the name is cut to 24 characters before it is trimmed.
setNameHandler_SliceThenTrim(s, ws, msg) ==
  LET desired == trim(slice0(msg.name, NameMax))
      clean == IF desired # << >> THEN desired ELSE defaultName(get(s, ws).id)
      client == [id |-> get(s, ws).id, name |-> clean]
      s1 == set(s, ws, client)
      s2 == send(s1, ws, [type |-> "name_set", you |-> client, online |-> rosterNow(s1)])
  IN broadcast(s2, [type |-> "presence", action |-> "rename",
                    user |-> client, online |-> rosterNow(s2)])

\* Mutant of setNameHandler: the Bot's state is re-evaluated after the rename.
setNameHandler_Reevaluate(s, ws, msg) ==
  LET desired == trim(msg.name)
      clean == IF slice0(desired, NameMax) # << >> THEN slice0(desired, NameMax)
               ELSE defaultName(get(s, ws).id)
      client == [id |-> get(s, ws).id, name |-> clean]
      s1 == set(s, ws, client)
      s2 == send(s1, ws, [type |-> "name_set", you |-> client, online |-> rosterNow(s1)])
      s3 == broadcast(s2, [type |-> "presence", action |-> "rename",
                           user |-> client, online |-> rosterNow(s2)])
  IN startBotIfNeeded(stopBotIfNeeded(s3))

\* Mutant of setNameHandler: the rename is acknowledged but not broadcast.
setNameHandler_NoRename(s, ws, msg) ==
  LET desired == trim(msg.name)
      clean == IF slice0(desired, NameMax) # << >> THEN slice0(desired, NameMax)
               ELSE defaultName(get(s, ws).id)
      client == [id |-> get(s, ws).id, name |-> clean]
      s1 == set(s, ws, client)
  IN send(s1, ws, [type |-> "name_set", you |-> client, online |-> rosterNow(s1)])

\* the set_name branch of ws.on('message') (server.js:218-227)
setNameHandler(s, ws, msg) ==
  LET desired == trim(msg.name)
      clean == IF slice0(desired, NameMax) # << >> THEN slice0(desired, NameMax)
               ELSE defaultName(get(s, ws).id)
      client == [id |-> get(s, ws).id, name |-> clean]
      s1 == set(s, ws, client)
      s2 == send(s1, ws, [type |-> "name_set", you |-> client, online |-> rosterNow(s1)])
  IN broadcast(s2, [type |-> "presence", action |-> "rename",
                    user |-> client, online |-> rosterNow(s2)])

\* Mutant of chatHandler: the body is tested for emptiness before it is trimmed.
chatHandler_EmptyCheckBeforeTrim(s, ws, msg) ==
  LET body == trim(msg.body)
      client == get(s, ws)
      s1 == broadcast(s, [type |-> "chat", from |-> [id |-> client.id, name |-> client.name],
                          body |-> slice0(body, ChatMax)])
  IN IF msg.body = << >> THEN s
     ELSE IF s1.botActive /\ realClientCount(s1) = 1 THEN botReply(s1, body)
     ELSE s1

\* Mutant of chatHandler: the Bot replies whether or not it is Active and alone.
chatHandler_AlwaysReply(s, ws, msg) ==
  LET body == trim(msg.body)
      client == get(s, ws)
      s1 == broadcast(s, [type |-> "chat", from |-> [id |-> client.id, name |-> client.name],
                          body |-> slice0(body, ChatMax)])
  IN IF body = << >> THEN s ELSE botReply(s1, body)

\* the chat branch of ws.on('message') (server.js:230-246)
chatHandler(s, ws, msg) ==
  LET body == trim(msg.body)
      client == get(s, ws)
      s1 == broadcast(s, [type |-> "chat", from |-> [id |-> client.id, name |-> client.name],
                          body |-> slice0(body, ChatMax)])
  IN IF body = << >> THEN s
     ELSE IF s1.botActive /\ realClientCount(s1) = 1 THEN botReply(s1, body)
     ELSE s1

\* safeJsonParse(text) followed by `!msg || typeof msg !== 'object'`: a frame is
\* accepted when it parses to a non-null object (an array is one)
accepted(frame) == frame.json \in {"object", "array"}

\* ws.on('message', (raw) => ...) (server.js:210-247)
messageHandler(s, ws, frame) ==
  IF ~accepted(frame) THEN s
  ELSE IF frame.type = "set_name" THEN setNameHandler(s, ws, frame)
  ELSE IF frame.type = "chat" THEN chatHandler(s, ws, frame)
  ELSE s

\* Mutant of closeHandler: activation is attempted before deactivation.
closeHandler_StartThenStop(s, ws) ==
  LET client == get(s, ws)
      s1 == delete(s, ws)
      s2 == broadcast(s1, [type |-> "presence", action |-> "leave",
                           user |-> client, online |-> rosterNow(s1)])
  IN stopBotIfNeeded(startBotIfNeeded(s2))

\* Mutant of closeHandler: the Bot's state is not re-evaluated after a leave.
closeHandler_NoStart(s, ws) ==
  LET client == get(s, ws)
      s1 == delete(s, ws)
      s2 == broadcast(s1, [type |-> "presence", action |-> "leave",
                           user |-> client, online |-> rosterNow(s1)])
  IN stopBotIfNeeded(s2)

\* ws.on('close', () => ...) (server.js:249-263)
closeHandler(s, ws) ==
  LET client == get(s, ws)
      s1 == delete(s, ws)
      s2 == broadcast(s1, [type |-> "presence", action |-> "leave",
                           user |-> client, online |-> rosterNow(s1)])
  IN startBotIfNeeded(stopBotIfNeeded(s2))

\* Mutant of errorHandler: the faulting session is dropped from the registry.
errorHandler_Delete(s, ws) == delete(s, ws)

\* ws.on('error', () => {}) (server.js:265-267)
errorHandler(s, ws) == s

(***************************************************************************)
(* Inputs                                                                  *)
(***************************************************************************)
\* msg.name of a set_name frame after String(msg.name || ''): a missing, null or
\* empty name is the empty text.
NameInputs == { << >>,
                <<" ", " ">>,
                <<" ", "A", "l", " ">>,
                Repeat("x", NameMax + 1) }

\* msg.body of a chat frame after String(msg.body || '')
ChatInputs == { << >>,
                <<" ">>,
                <<"/", "p", "i", "n", "g">>,
                <<" ", "y", "o", " ">> }

Frame(json, type, name, body) == [json |-> json, type |-> type, name |-> name, body |-> body]

\* The inbound frames: unparseable text, JSON that is no object, objects without
\* a recognised type, set_name and chat requests.
Frames == { Frame("invalid", "", << >>, << >>),
            Frame("null", "", << >>, << >>),
            Frame("number", "", << >>, << >>),
            Frame("array", "", << >>, << >>),
            Frame("object", "", << >>, << >>),
            Frame("object", "ping", << >>, << >>) }
          \cup { Frame("object", "set_name", n, << >>) : n \in NameInputs }
          \cup { Frame("object", "chat", << >>, b) : b \in ChatInputs }

NoFrame == Frame("none", "", << >>, << >>)

(***************************************************************************)
(* History                                                                 *)
(***************************************************************************)
\* The type of the first event of `evs` delivered to ws, "none" if there is none.
firstTypeTo(evs, ws) ==
  LET idx == {i \in 1..Len(evs) : \E k \in 1..Len(evs[i].to) : evs[i].to[k] = ws}
  IN IF idx = {} THEN "none"
     ELSE evs[CHOOSE i \in idx : \A j \in idx : i <= j].obj.type

isBotPresence(e, action) ==
  e.obj.type = "presence" /\ e.obj.action = action /\ e.obj.user.id = BOT.id

\* How many presence(action) events of the Bot `evs` holds.
botPresenceCount(evs, action) ==
  Cardinality({i \in 1..Len(evs) : isBotPresence(evs[i], action)})

\* The indices of the events of `evs` that are presence events of the Bot.
botPresenceIdx(evs) ==
  {i \in 1..Len(evs) : evs[i].obj.type = "presence" /\ evs[i].obj.user.id = BOT.id}

\* The indices of the events of `evs` with a roster that were delivered to ws.
rosterIdxTo(evs, ws) ==
  {i \in 1..Len(evs) : /\ evs[i].obj.type \in {"welcome", "name_set", "presence"}
                       /\ \E k \in 1..Len(evs[i].to) : evs[i].to[k] = ws}

\* The largest element of a non-empty set of numbers.
Last(idx) == CHOOSE i \in idx : \A j \in idx : j <= i

\* No roster: what lastRoster holds for a socket that is not OPEN.  A socket
\* that has left OPEN never returns to it, so its history is dropped.
NoRoster == << >>

\* The state after a handler that took the globals to s.
Commit(s, kind, ws, frame) ==
  /\ readyState' = s.readyState
  /\ clients' = s.clients
  /\ nextId' = s.nextId
  /\ botActive' = s.botActive
  /\ botIdleTimer' = s.botIdleTimer
  /\ timers' = s.timers
  /\ out' = s.out
  /\ installedOver' = s.installedOver
  /\ handler' = [kind |-> kind, ws |-> ws, frame |-> frame]
  /\ firstRecv' = [w \in Sockets |-> IF firstRecv[w] = "none" THEN firstTypeTo(s.out, w)
                                     ELSE firstRecv[w]]
  /\ soloStarts' = [i \in DOMAIN soloStarts |->
                      IF \E k \in 1..Len(s.clients) : s.clients[k].id = i /\ Len(s.clients) = 1
                      THEN soloStarts[i] + botPresenceCount(s.out, "join")
                      ELSE soloStarts[i]]
  /\ lastBotPresence' = IF botPresenceIdx(s.out) = {} THEN lastBotPresence
                        ELSE s.out[Last(botPresenceIdx(s.out))].obj.action
  /\ lastRoster' = [w \in Sockets |->
                      IF s.readyState[w] # "OPEN" THEN NoRoster
                      ELSE IF rosterIdxTo(s.out, w) = {} THEN lastRoster[w]
                      ELSE s.out[Last(rosterIdxTo(s.out, w))].obj.online]

(***************************************************************************)
(* Actions: one per handler, plus the peer's side of the transport         *)
(***************************************************************************)
Init ==
  /\ readyState = [w \in Sockets |-> "NEW"]
  /\ clients = << >>
  /\ nextId = 1
  /\ botActive = FALSE
  /\ botIdleTimer = NullTimer
  /\ timers = {}
  /\ out = << >>
  /\ installedOver = << >>
  /\ handler = [kind |-> "init", ws |-> NoSocket, frame |-> NoFrame]
  /\ firstRecv = [w \in Sockets |-> "none"]
  /\ soloStarts = [i \in 1..MaxConns |-> 0]
  /\ lastBotPresence = "none"
  /\ lastRoster = [w \in Sockets |-> NoRoster]

\* The server accepts a connection: the socket is OPEN when 'connection' is emitted.
Connect ==
  \E ws \in Sockets :
    /\ readyState[ws] = "NEW"
    /\ \A w \in Sockets : w[2] < ws[2] => readyState[w] # "NEW"
    /\ Commit(connectionHandler([Globals EXCEPT !.readyState[ws] = "OPEN"], ws),
              "connection", ws, NoFrame)

\* A frame arrives on a registered connection; frames still buffered when the
\* socket starts closing are delivered too.
Message ==
  \E ws \in Sockets, frame \in Frames :
    /\ has(Globals, ws)
    /\ Commit(messageHandler(Globals, ws, frame), "message", ws, frame)

\* The connection's socket is gone: readyState is CLOSED when 'close' is emitted.
Close ==
  \E ws \in Sockets :
    /\ has(Globals, ws)
    /\ Commit(closeHandler([Globals EXCEPT !.readyState[ws] = "CLOSED"], ws),
              "close", ws, NoFrame)

\* A transport error: the socket is CLOSING when 'error' is emitted, 'close' follows.
Error ==
  \E ws \in Sockets :
    /\ has(Globals, ws)
    /\ Commit(errorHandler([Globals EXCEPT !.readyState[ws] = "CLOSING"], ws),
              "error", ws, NoFrame)

\* The peer starts the closing handshake: the socket leaves OPEN, no handler runs.
PeerClosing ==
  \E ws \in Sockets :
    /\ readyState[ws] = "OPEN"
    /\ Commit([Globals EXCEPT !.readyState[ws] = "CLOSING"], "peer", ws, NoFrame)

\* A live interval fires its callback.
TimerFire ==
  \E t \in timers, p \in 1..Len(prompts) :
    Commit(idleTick(Globals, p), "timer", NoSocket, NoFrame)

Next == Connect \/ Message \/ Close \/ Error \/ PeerClosing \/ TimerFire

Spec == Init /\ [][Next]_vars

(***************************************************************************)
(* Vocabulary of the properties                                            *)
(***************************************************************************)
\* The last step ran the named handler to completion.
AfterConnect == handler.kind = "connection"
AfterClose == handler.kind = "close"
AfterSetName == /\ handler.kind = "message"
                /\ accepted(handler.frame)
                /\ handler.frame.type = "set_name"
AfterChat == /\ handler.kind = "message"
             /\ accepted(handler.frame)
             /\ handler.frame.type = "chat"

\* Number of real (id > 0) sessions in a registry.
RealCount(cl) == Cardinality({i \in 1..Len(cl) : cl[i].id > 0})

\* The events that carry an `online` roster.
HasRoster(e) == e.obj.type \in {"welcome", "name_set", "presence"}

\* The sessions of a registry as {id, name} objects, in registry order.
SessionsOf(cl) == [i \in 1..Len(cl) |-> [id |-> cl[i].id, name |-> cl[i].name]]

\* The roster view of a registry and a Bot state.
RosterView(cl, active) == (IF active THEN <<BOT>> ELSE << >>) \o SessionsOf(cl)

\* How often an identity with this id occurs in a roster.
Occurrences(roster, id) == Cardinality({i \in 1..Len(roster) : roster[i].id = id})

\* The sockets an event was delivered to.
Recipients(e) == {e.to[k] : k \in 1..Len(e.to)}

\* The registered sockets of a registry that are OPEN.
OpenIn(cl) == {cl[i].ws : i \in {j \in 1..Len(cl) : readyState[cl[j].ws] = "OPEN"}}

(***************************************************************************)
(* C1                                                                      *)
(***************************************************************************)
\* The Bot is Active exactly when the registry holds exactly one real session.
BotActiveIffSolo == botActive <=> (RealCount(clients) = 1)

\* C1: after every completed connect, disconnect and set_name handler, the Bot
\* is Active if and only if exactly one real session is registered.
C1_BotActiveIffSolo == (AfterConnect \/ AfterClose \/ AfterSetName) => BotActiveIffSolo

\* C1 witness: a disconnect has just emptied the registry of a solo session, so
\* the Bot, Active before, is Inactive with no real session left.
C1_Witness == AfterClose /\ clients = << >> /\ ~botActive /\ nextId > 2

(***************************************************************************)
(* C2                                                                      *)
(***************************************************************************)
\* The roster of an event is the registry at its emission, Bot first iff Active then.
RosterIsSnapshot(e) == e.obj.online = RosterView(e.clientsAt, e.botAt)

\* The registry an event saw is the one the handler's mutation left.
PostMutation(e) ==
  /\ e.clientsAt = clients
  /\ AfterConnect => \E i \in 1..Len(e.clientsAt) : e.clientsAt[i].ws = handler.ws
  /\ AfterClose => \A i \in 1..Len(e.clientsAt) : e.clientsAt[i].ws # handler.ws
  /\ AfterSetName =>
       \E i \in 1..Len(e.clientsAt) :
         /\ e.clientsAt[i].ws = handler.ws
         /\ e.clientsAt[i].name \in {slice0(trim(handler.frame.name), NameMax),
                                     defaultName(e.clientsAt[i].id)}
         /\ \E k \in 1..Len(e.obj.online) :
               e.obj.online[k] = [id |-> e.clientsAt[i].id, name |-> e.clientsAt[i].name]

\* C2: every event that carries a roster (welcome, name_set, presence of a session
\* or of the Bot) carries exactly the sessions registered when it is emitted, after
\* the handler's mutation of the registry, with the Bot identity prepended if and
\* only if the Bot is Active at that moment.
C2_RosterIsPostMutationSnapshot ==
  \A i \in 1..Len(out) :
    HasRoster(out[i]) => RosterIsSnapshot(out[i]) /\ PostMutation(out[i])

\* C2 witness: a disconnect left one session; the departing session's leave
\* carries a roster without the Bot and the Bot's join one with it.
C2_Witness ==
  /\ AfterClose /\ Len(out) >= 2
  /\ out[1].obj.type = "presence" /\ out[1].obj.action = "leave" /\ ~out[1].botAt
  /\ Len(out[1].obj.online) = 1
  /\ isBotPresence(out[2], "join") /\ out[2].obj.online[1] = BOT
  /\ Len(out[2].obj.online) = 2

(***************************************************************************)
(* C3                                                                      *)
(***************************************************************************)
\* The roster of an event names the Bot.
ListsBot(e) == Occurrences(e.obj.online, BOT.id) > 0

\* C3 as stated: whenever an event with a roster is emitted while the registry
\* holds a number of real sessions other than exactly 1, the Bot is Inactive and
\* the roster does not contain the Bot identity.
C3_Original_NoBotUnlessSolo ==
  \A i \in 1..Len(out) :
    (HasRoster(out[i]) /\ RealCount(out[i].clientsAt) # 1)
      => (~out[i].botAt /\ ~ListsBot(out[i]))

\* The events a connection or close handler emits for its own session, between
\* the registry mutation and the re-evaluation of the Bot.
OwnSessionEvent(e) ==
  \/ AfterConnect /\ e.obj.type = "welcome"
  \/ AfterConnect /\ e.obj.type = "presence" /\ e.obj.action = "join" /\ e.obj.user.id > 0
  \/ AfterClose /\ e.obj.type = "presence" /\ e.obj.action = "leave" /\ e.obj.user.id > 0

\* C3 as amended: the Bot deactivates within the handler in which the solo
\* condition stops holding.  A roster event emitted while the registry holds a
\* number of real sessions other than 1 is emitted with the Bot Inactive and
\* without the Bot identity, except the connecting session's welcome and
\* presence(join) and the departing session's presence(leave), which are emitted
\* before the re-evaluation and still list the Bot when it was Active; the same
\* handler then emits the Bot's presence(leave) with a roster without the Bot,
\* and ends with the Bot Inactive.
C3_BotLeavesWithinHandler ==
  \A i \in 1..Len(out) :
    (HasRoster(out[i]) /\ RealCount(out[i].clientsAt) # 1)
      => \/ ~out[i].botAt /\ ~ListsBot(out[i])
         \/ /\ OwnSessionEvent(out[i])
            /\ \E j \in (i + 1)..Len(out) :
                  /\ isBotPresence(out[j], "leave")
                  /\ ~out[j].botAt /\ ~ListsBot(out[j])
            /\ ~botActive

\* C3 witness: a second session connected while the Bot was Active; its welcome
\* lists the Bot and the Bot's leave follows in the same handler.
C3_Witness ==
  /\ AfterConnect /\ Len(clients) = 2 /\ Len(out) = 3
  /\ out[1].obj.type = "welcome" /\ ListsBot(out[1])
  /\ isBotPresence(out[3], "leave") /\ ~ListsBot(out[3])
  /\ ~botActive

(***************************************************************************)
(* C4                                                                      *)
(***************************************************************************)
\* C4: at every handler boundary exactly one idle timer is live while the Bot
\* is Active (the one botIdleTimer holds) and none while it is Inactive, and
\* every setInterval call found botIdleTimer null.
C4_OneTimerIffActive ==
  /\ Cardinality(timers) = (IF botActive THEN 1 ELSE 0)
  /\ botActive => botIdleTimer \in timers
  /\ ~botActive => botIdleTimer = NullTimer
  /\ \A k \in 1..Len(installedOver) : installedOver[k] = NullTimer

\* C4 witness: the Bot is Active for the second time at least (a session has
\* left, so an earlier Active period ended) and a timer was just installed.
C4_Witness ==
  /\ AfterClose /\ botActive /\ nextId > 3
  /\ Len(installedOver) = 1 /\ Cardinality(timers) = 1

(***************************************************************************)
(* C5                                                                      *)
(***************************************************************************)
\* C5: a disconnect that leaves exactly one real session takes the Bot from
\* Inactive to Active and emits, in this order and nothing else, the departing
\* session's presence(leave), one presence(join) of the Bot and one
\* introductory chat of the Bot; it emits no presence(leave) of the Bot.
C5_CloseToSoloStartsBot ==
  (AfterClose /\ RealCount(clients) = 1) =>
    /\ botActive
    /\ Len(out) = 3
    /\ out[1].obj.type = "presence" /\ out[1].obj.action = "leave"
    /\ out[1].obj.user.id > 0 /\ ~out[1].botAt
    /\ isBotPresence(out[2], "join") /\ out[2].botAt
    /\ out[3].obj.type = "chat" /\ out[3].obj.from.id = BOT.id
    /\ out[3].obj.body = IntroLine
    /\ botPresenceCount(out, "join") = 1
    /\ botPresenceCount(out, "leave") = 0

\* C5 witness: two sessions were registered, the first one closed, and the
\* remaining one received the Bot's join and introduction.
C5_Witness ==
  /\ AfterClose /\ Len(clients) = 1 /\ clients[1].id = 2 /\ botActive
  /\ Len(out) = 3 /\ Recipients(out[2]) = {clients[1].ws}
  /\ Recipients(out[3]) = {clients[1].ws}

(***************************************************************************)
(* C6                                                                      *)
(***************************************************************************)
\* C6 as stated: for each real session the Bot enters Active at most once with
\* that session as the sole real session.
C6_Original_OneActivePeriodPerSession == \A i \in DOMAIN soloStarts : soloStarts[i] <= 1

\* C6 as amended: the re-evaluation order guarantees at most one activation per
\* solo period, not per session.  A handler makes the Bot enter Active at most
\* once, and only a connect or disconnect handler that takes the real-session
\* count from another value to exactly 1 with the Bot Inactive before it; the
\* Bot is then Active when the handler ends.  A session that is alone again
\* after a later session has left gets a further Active period.
C6_OneActivationPerSoloPeriod ==
  [][ LET n == botPresenceCount(out', "join")
      IN /\ n <= 1
         /\ (~botActive /\ botActive') => n = 1
         /\ n = 1 => /\ handler'.kind \in {"connection", "close"}
                     /\ ~botActive /\ RealCount(clients) # 1
                     /\ botActive' /\ RealCount(clients') = 1 ]_vars

\* C6 witness: the Bot has entered Active twice with the same session alone.
C6_Witness == \E i \in DOMAIN soloStarts : soloStarts[i] = 2 /\ botActive

(***************************************************************************)
(* C7                                                                      *)
(***************************************************************************)
\* C7: ids are handed out in increasing order from 1, one per accepted
\* connection, whether or not earlier sessions have left; the registered
\* sessions have pairwise distinct ids (increasing in registry order), all > 0
\* and below nextId, so none has the Bot's id.
C7_IdsIncreasingNeverReused ==
  /\ nextId = 1 + Cardinality({w \in Sockets : readyState[w] # "NEW"})
  /\ \A i \in 1..Len(clients) :
       /\ clients[i].id > 0 /\ clients[i].id < nextId /\ clients[i].id # BOT.id
       /\ \A j \in 1..Len(clients) : i < j => clients[i].id < clients[j].id
  /\ AfterConnect =>
       /\ clients[Len(clients)].ws = handler.ws
       /\ clients[Len(clients)].id = nextId - 1
       /\ out[1].obj.you.id = nextId - 1

\* C7 witness: the first session has disconnected and the third connection
\* got id 3, not the freed id 1.
C7_Witness ==
  /\ AfterConnect /\ readyState[<<"ws", 1>>] = "CLOSED"
  /\ Len(clients) = 2 /\ clients[1].id = 2 /\ clients[2].id = 3

(***************************************************************************)
(* C8                                                                      *)
(***************************************************************************)
\* ws.send was called at most once per socket for this event.
DeliveredOnce(e) == \A k, l \in 1..Len(e.to) : k # l => e.to[k] # e.to[l]

\* C8: every event goes exactly once to the sockets its helper must reach and
\* to no other: broadcast to every registered OPEN socket, broadcastExcept to
\* every registered OPEN socket but the originating one, send to its target if
\* it is OPEN.  A registered socket that is not OPEN gets nothing and stays
\* registered.
C8_DeliveryToOpenOnly ==
  \A i \in 1..Len(out) :
    LET e == out[i] IN
    /\ DeliveredOnce(e)
    /\ e.via = "broadcast" => Recipients(e) = OpenIn(e.clientsAt)
    /\ e.via = "broadcastExcept" => Recipients(e) = OpenIn(e.clientsAt) \ {e.arg}
    /\ e.via = "send" => Recipients(e) = (IF readyState[e.arg] = "OPEN" THEN {e.arg} ELSE {})
    /\ \A k \in 1..Len(e.clientsAt) :
         readyState[e.clientsAt[k].ws] # "OPEN"
           => /\ e.clientsAt[k].ws \notin Recipients(e)
              /\ has(Globals, e.clientsAt[k].ws)

\* C8 witness: a third connection is accepted while the second registered
\* socket is CLOSING; the join reaches the first socket only.
C8_Witness ==
  /\ AfterConnect /\ Len(clients) = 3
  /\ readyState[clients[2].ws] = "CLOSING"
  /\ out[2].via = "broadcastExcept" /\ out[2].to = <<clients[1].ws>>
  /\ out[1].via = "send" /\ out[1].to = <<clients[3].ws>>

(***************************************************************************)
(* C9                                                                      *)
(***************************************************************************)
\* C9: the first event a connection ever receives is its welcome; the
\* welcome's roster holds the new session exactly once; the presence(join) of
\* the new session goes to every other OPEN connection and not to the new one.
C9_WelcomeFirstJoinToOthers ==
  /\ \A w \in Sockets : firstRecv[w] = (IF readyState[w] = "NEW" THEN "none" ELSE "welcome")
  /\ AfterConnect =>
       /\ Len(out) >= 2
       /\ out[1].obj.type = "welcome" /\ out[1].to = <<handler.ws>>
       /\ out[1].obj.you = get(Globals, handler.ws)
       /\ Occurrences(out[1].obj.online, out[1].obj.you.id) = 1
       /\ \E k \in 1..Len(out[1].obj.online) : out[1].obj.online[k] = out[1].obj.you
       /\ out[2].obj.type = "presence" /\ out[2].obj.action = "join"
       /\ out[2].obj.user = out[1].obj.you
       /\ Recipients(out[2]) = OpenIn(clients) \ {handler.ws}
       /\ \A i \in 2..Len(out) :
            (out[i].obj.type = "presence" /\ out[i].obj.user.id > 0)
              => handler.ws \notin Recipients(out[i])

\* C9 witness: a third connection joins two OPEN ones; both get its join.
C9_Witness ==
  /\ AfterConnect /\ Len(clients) = 3
  /\ Len(out[1].obj.online) = 3
  /\ Cardinality(Recipients(out[2])) = 2

(***************************************************************************)
(* C10                                                                     *)
(***************************************************************************)
\* C10: a set_name request emits a name_set addressed to the requester alone
\* (delivered if it is OPEN) and then one presence(rename) to every OPEN
\* connection, the requester among them; the registry keeps its connections,
\* ids and order, only the requester's name changes, and it occurs once in the
\* roster under its new name; nextId, the Bot state and the idle timer are
\* left unchanged.
C10_SetNameFrame ==
  [][ AfterSetName' =>
        LET ws == handler'.ws
            me == get([clients |-> clients'], ws)
        IN /\ Len(out') = 2
           /\ out'[1].obj.type = "name_set" /\ out'[1].via = "send" /\ out'[1].arg = ws
           /\ out'[1].to = (IF readyState[ws] = "OPEN" THEN <<ws>> ELSE << >>)
           /\ out'[1].obj.you = me
           /\ out'[2].obj.type = "presence" /\ out'[2].obj.action = "rename"
           /\ out'[2].obj.user = me
           /\ DeliveredOnce(out'[2])
           /\ Recipients(out'[2]) = OpenIn(clients)
           /\ out'[2].obj.online = out'[1].obj.online
           /\ Occurrences(out'[2].obj.online, me.id) = 1
           /\ \E k \in 1..Len(out'[2].obj.online) : out'[2].obj.online[k] = me
           /\ Len(clients') = Len(clients)
           /\ \A i \in 1..Len(clients) :
                /\ clients'[i].ws = clients[i].ws
                /\ clients'[i].id = clients[i].id
                /\ clients[i].ws # ws => clients'[i].name = clients[i].name
           /\ RealCount(clients') = RealCount(clients)
           /\ UNCHANGED <<readyState, nextId, botActive, botIdleTimer, timers>> ]_vars

\* C10 witness: with two OPEN connections, the second one has renamed itself
\* to "Al"; it got the name_set and both got the rename.
C10_Witness ==
  /\ AfterSetName /\ Len(clients) = 2 /\ clients[2].ws = handler.ws
  /\ clients[2].name = <<"A", "l">> /\ clients[1].name = defaultName(1)
  /\ out[1].to = <<handler.ws>> /\ Len(out[2].to) = 2

(***************************************************************************)
(* C11: the set_name handler on a wide set of names.  One connection at a  *)
(* time is registered (connect, rename, close, connect again), so that the *)
(* default name is taken for several ids.                                  *)
(***************************************************************************)
\* Longest name over NameAlphabet that is enumerated in full.
MaxNameLen == 4

NameAlphabet == {" ", "\t", "a"}

\* msg.name: every text over NameAlphabet up to MaxNameLen, and names around
\* the 24-character cut, bare and padded with whitespace.
WideNames ==
  UNION {[1..k -> NameAlphabet] : k \in 0..MaxNameLen}
  \cup {Repeat("x", n) : n \in (NameMax - 1)..(NameMax + 2)}
  \cup {<<" ">> \o Repeat("x", n) \o <<"\t", " ">> : n \in (NameMax - 1)..(NameMax + 2)}
  \cup {<<"a">> \o Repeat(" ", NameMax - 1) \o <<"b", "c">>}

\* The server accepts a connection while no other is registered.
ConnectAlone == clients = << >> /\ Connect

\* A set_name frame with a name of WideNames arrives.
SetNameWide ==
  \E ws \in Sockets, n \in WideNames :
    /\ has(Globals, ws)
    /\ Commit(messageHandler(Globals, ws, Frame("object", "set_name", n, << >>)),
              "message", ws, Frame("object", "set_name", n, << >>))

NextName == ConnectAlone \/ SetNameWide \/ Close

SpecName == Init /\ [][NextName]_vars

\* The positions of a text that hold no whitespace.
NonSpace(str) == {i \in 1..Len(str) : ~IsSpace(str[i])}

First(idx) == CHOOSE i \in idx : \A j \in idx : i <= j

\* C11: after a set_name the stored name is the input from its first to its last
\* non-whitespace character, cut to its first 24 characters, or "user-<id>" of
\* the session when the input holds nothing but whitespace; a stored name is
\* never empty and a name the client set is at most 24 characters long.
C11_StoredNameIsTrimmedCut ==
  /\ \A i \in 1..Len(clients) : clients[i].name # << >>
  /\ AfterSetName =>
       LET inp == handler.frame.name
           me == get(Globals, handler.ws)
           N == NonSpace(inp)
       IN IF N = {}
          THEN me.name = defaultName(me.id)
          ELSE LET lo == First(N)
                   len == Last(N) - lo + 1
               IN /\ Len(me.name) = (IF len < NameMax THEN len ELSE NameMax)
                  /\ Len(me.name) <= 24
                  /\ \A k \in 1..Len(me.name) : me.name[k] = inp[lo + k - 1]

\* C11 witness: the second session sent 25 x's between whitespace and is stored
\* as 24 x's.
C11_Witness ==
  /\ AfterSetName
  /\ handler.frame.name = <<" ">> \o Repeat("x", NameMax + 1) \o <<"\t", " ">>
  /\ get(Globals, handler.ws) = [id |-> 2, name |-> Repeat("x", NameMax)]

(***************************************************************************)
(* C12, C13, C15: the chat handler on a wide set of bodies, with up to     *)
(* MaxChatConns connections, so that the Bot is Active for the first and   *)
(* Inactive once a second one has joined.                                  *)
(***************************************************************************)
\* Number of connections accepted in a behaviour of SpecChat.
MaxChatConns == 2

\* msg.body: blank bodies, the commands, keywords alone, combined and in upper
\* case, questions, plain text, and bodies around the 140-character clip of the
\* echo and the 2000-character cut of the broadcast.
WideChats ==
  { << >>,
    <<" ">>,
    <<"\t", " ", "\n">>,
    <<"/", "h", "e", "l", "p">>,
    <<"/", "p", "i", "n", "g">>,
    <<"/", "a", "b", "o", "u", "t">>,
    <<"/", "i", "d", "e", "a">>,
    <<" ", "/", "p", "i", "n", "g", " ", "\n">>,
    <<"/", "P", "I", "N", "G">>,
    <<"/", "h", "e", "l", "p", " ", "m", "e">>,
    <<"d", "e", "p", "l", "o", "y">>,
    <<"R", "e", "n", "d", "e", "r", " ", "n", "o", "w">>,
    <<"d", "e", "p", "l", "o", "y", " ", "b", "u", "g", " ", "h", "i", "?">>,
    <<"b", "u", "g">>,
    <<"E", "R", "R", "O", "R", " ", "h", "i">>,
    <<"a", "n", " ", "e", "r", "r", "o", "r", "?">>,
    <<"h", "e", "l", "l", "o">>,
    <<"t", "h", "i", "s">>,
    <<"H", "i", "?">>,
    <<"w", "h", "a", "t", "?">>,
    <<"/", "i", "d", "e", "a", "?">>,
    <<"y", "o">>,
    <<"?", " ", "n", "o">> }
  \cup {Repeat("z", n) : n \in {ClipMax, ClipMax + 1}}
  \cup {<<" ">> \o Repeat("z", ChatMax + 1) \o <<"\n">>}

\* The server accepts one of the first MaxChatConns connections.
ConnectFew == nextId <= MaxChatConns /\ Connect

\* A chat frame with a body of WideChats arrives.
ChatWide ==
  \E ws \in Sockets, b \in WideChats :
    /\ has(Globals, ws)
    /\ Commit(messageHandler(Globals, ws, Frame("object", "chat", << >>, b)),
              "message", ws, Frame("object", "chat", << >>, b))

NextChat == ConnectFew \/ ChatWide \/ PeerClosing \/ Close

SpecChat == Init /\ [][NextChat]_vars

\* The position of the first character that is no whitespace.
FirstNonSpace(str) ==
  CHOOSE i \in 1..Len(str) : ~IsSpace(str[i]) /\ \A j \in 1..(i - 1) : IsSpace(str[j])

\* The position of the last character that is no whitespace.
LastNonSpace(str) ==
  CHOOSE i \in 1..Len(str) : ~IsSpace(str[i]) /\ \A j \in (i + 1)..Len(str) : IsSpace(str[j])

\* The text from the first to the last non-whitespace character, << >> if none.
Trimmed(str) == IF \A i \in 1..Len(str) : IsSpace(str[i]) THEN << >>
                ELSE SubSeq(str, FirstNonSpace(str), LastNonSpace(str))

\* The first n characters of a text, all of it when it has fewer.
Cut(str, n) == IF Len(str) <= n THEN str ELSE SubSeq(str, 1, n)

\* The chat events of `evs` whose sender has this id.
chatIdxFrom(evs, id) ==
  {i \in 1..Len(evs) : evs[i].obj.type = "chat" /\ evs[i].obj.from.id = id}

\* C12: a chat request whose body is blank after trimming emits nothing and
\* changes no state; any other emits exactly one chat event of the sender,
\* first, to every OPEN connection, whose body is the trimmed input cut to at
\* most 2000 characters, and apart from it at most a chat event of the Bot.
C12_ChatBroadcast ==
  [][ AfterChat' =>
        LET inp == handler'.frame.body
            me == get(Globals, handler'.ws)
        IN IF \A i \in 1..Len(inp) : IsSpace(inp[i])
           THEN /\ out' = << >>
                /\ UNCHANGED <<readyState, clients, nextId, botActive, botIdleTimer, timers>>
           ELSE /\ chatIdxFrom(out', me.id) = {1}
                /\ out'[1].via = "broadcast"
                /\ DeliveredOnce(out'[1])
                /\ Recipients(out'[1]) = OpenIn(clients)
                /\ out'[1].obj.from = me
                /\ out'[1].obj.body = Cut(Trimmed(inp), 2000)
                /\ Len(out'[1].obj.body) <= 2000
                /\ \A i \in 2..Len(out') : out'[i].obj.type = "chat" /\ out'[i].obj.from.id = BOT.id
      ]_vars

\* C12 witness: with two OPEN connections, a body of 2001 z's between
\* whitespace was broadcast to both as 2000 z's.
C12_Witness ==
  /\ AfterChat /\ Len(handler.frame.body) = ChatMax + 3
  /\ Len(out) = 1 /\ out[1].obj.body = Repeat("z", ChatMax)
  /\ Len(out[1].to) = 2

\* C13: a non-blank chat message received while the Bot is Active and exactly
\* one real session is registered is followed by exactly one chat event of the
\* Bot, emitted after the sender's (for "/ping" its body is "pong"); received
\* while the Bot is Inactive or the count is not 1, or blank, by none.
C13_OneBotReplyWhenSolo ==
  AfterChat =>
    LET t == Trimmed(handler.frame.body)
        replies == chatIdxFrom(out, BOT.id)
    IN IF t # << >> /\ botActive /\ RealCount(clients) = 1
       THEN /\ replies = {2}
            /\ Len(out) = 2
            /\ out[1].obj.from.id = get(Globals, handler.ws).id
            /\ t = <<"/", "p", "i", "n", "g">> => out[2].obj.body = <<"pong">>
       ELSE replies = {}

\* C13 witness: the only session sent " /ping " with a newline and the Bot
\* answered "pong" after the session's own chat event.
C13_Witness ==
  /\ AfterChat /\ botActive /\ Len(clients) = 1
  /\ handler.frame.body = <<" ", "/", "p", "i", "n", "g", " ", "\n">>
  /\ out[1].obj.body = <<"/", "p", "i", "n", "g">>
  /\ out[2].obj.body = <<"pong">> /\ out[2].obj.from = BOT

(***************************************************************************)
(* C14                                                                     *)
(***************************************************************************)
\* The last step handled a frame the server ignores: one that does not parse to
\* an object, or an object whose type is neither set_name nor chat.
IgnoredFrame ==
  /\ handler.kind = "message"
  /\ ~(accepted(handler.frame) /\ handler.frame.type \in {"set_name", "chat"})

\* The last step handled a transport error.
AfterError == handler.kind = "error"

\* The sockets of a registry.
Registered(cl) == {cl[i].ws : i \in 1..Len(cl)}

\* C14: a frame that is no valid JSON, no JSON object or of a type other than
\* set_name and chat, and a transport error, each emit no event and leave the
\* registry, the next id, the Bot state and the idle timer unchanged; a session
\* leaves the registry only in the close event of its own connection.
C14_IgnoredInputsChangeNothing ==
  [][ /\ (IgnoredFrame' \/ AfterError') =>
            /\ out' = << >>
            /\ UNCHANGED <<clients, nextId, botActive, botIdleTimer, timers>>
      /\ \A ws \in Registered(clients) \ Registered(clients') :
            handler'.kind = "close" /\ handler'.ws = ws
    ]_vars

\* C14 witness: an error was raised on the only session while the Bot was
\* Active; the session is still registered, its socket CLOSING, nothing emitted.
C14_Witness ==
  /\ AfterError /\ out = << >>
  /\ Registered(clients) = {handler.ws} /\ readyState[handler.ws] = "CLOSING"
  /\ botActive /\ botIdleTimer \in timers

(***************************************************************************)
(* C15                                                                     *)
(***************************************************************************)
\* c is the lower-case letter d or its upper-case form, or the character d.
SameIgnoringCase(c, d) ==
  c = d \/ \E j \in 1..26 : UpperCase[j] = c /\ LowerCase[j] = d

\* The lower-case word w occurs in t, in whatever case.
Mentions(t, w) ==
  \E i \in 0..(Len(t) - Len(w)) : \A k \in 1..Len(w) : SameIgnoringCase(t[i + k], w[k])

\* The rules of the Bot in priority order, each with whether the trimmed input
\* t matches it and the reply it gives; the last one always matches.
ReplyRules(t) ==
  << [hit |-> t = <<"/", "h", "e", "l", "p">>,
      reply |-> <<"Commands: /help, /ping, /about, /idea">>],
     [hit |-> t = <<"/", "p", "i", "n", "g">>,
      reply |-> <<"pong">>],
     [hit |-> t = <<"/", "a", "b", "o", "u", "t">>,
      reply |-> <<"I'm a lightweight in-memory bot (no external API). I activate only when you're the only real user online.">>],
     [hit |-> t = <<"/", "i", "d", "e", "a">>,
      reply |-> <<"Next upgrades: rooms + message history (Redis) + typing indicators + basic moderation/rate limiting.">>],
     [hit |-> Mentions(t, <<"d", "e", "p", "l", "o", "y">>)
              \/ Mentions(t, <<"r", "e", "n", "d", "e", "r">>),
      reply |-> <<"Deploy tip: ensure server listens on process.env.PORT and the client uses wss:// on https:// (your UI already does).">>],
     [hit |-> Mentions(t, <<"b", "u", "g">>) \/ Mentions(t, <<"e", "r", "r", "o", "r">>),
      reply |-> <<"Paste the exact error text + where it occurs and I'll pinpoint the fix.">>],
     [hit |-> Mentions(t, <<"h", "e", "l", "l", "o">>) \/ Mentions(t, <<"h", "i">>),
      reply |-> <<"Hello. Your terminal UI is strong. Want me to help write a recruiter-grade README and resume bullet?">>],
     [hit |-> t[Len(t)] = "?",
      reply |-> <<"Good question. Give me one more detail (context or constraint) and I'll answer precisely.">>],
     [hit |-> TRUE,
      reply |-> <<"Acknowledged: \"">>
                \o (IF Len(t) > 140 THEN Cut(t, 140) \o <<"...">> ELSE t)
                \o <<"\" - do you want to iterate on UI, add rooms, or add persistence next?">>] >>

\* The rules the trimmed input matches.
Hits(t) == {i \in 1..Len(ReplyRules(t)) : ReplyRules(t)[i].hit}

\* C15: the Bot's reply to a non-blank message is the reply of the first rule
\* the trimmed input matches, in the order /help, /ping, /about, /idea (exact),
\* deploy or render, bug or error, hello or hi (substring, any case), a final
\* '?', and else the echo of the input, cut to 140 characters and an ellipsis
\* when it is longer; no reply of a later rule is emitted.
C15_FirstMatchingRuleWins ==
  (AfterChat /\ Trimmed(handler.frame.body) # << >> /\ botActive /\ RealCount(clients) = 1)
    => LET t == Trimmed(handler.frame.body)
       IN /\ chatIdxFrom(out, BOT.id) = {2}
          /\ out[2].obj.body = ReplyRules(t)[First(Hits(t))].reply

\* C15 witness: "deploy bug hi?" matches four rules and the echo; the Bot gave
\* the deploy reply.
C15_Witness ==
  /\ AfterChat /\ botActive
  /\ handler.frame.body = <<"d", "e", "p", "l", "o", "y", " ", "b", "u", "g", " ", "h", "i", "?">>
  /\ Hits(handler.frame.body) = {5, 6, 7, 8, 9}
  /\ Len(out) = 2 /\ out[2].obj.body = ReplyRules(handler.frame.body)[5].reply

(***************************************************************************)
(* C16                                                                     *)
(***************************************************************************)
\* The last step ran the setInterval callback.
AfterTimer == handler.kind = "timer"

\* The bodies of the four idle prompts.
PromptBodies == {prompts[k] : k \in 1..Len(prompts)}

\* The callback, run on globals s with the Bot Active, deactivates the Bot: the
\* interval is cancelled, the Bot's presence(leave) is the one event, no chat.
TickDeactivates(s, p) ==
  LET r == idleTick(s, p)
  IN /\ ~r.botActive
     /\ r.botIdleTimer = NullTimer
     /\ s.botIdleTimer \notin r.timers
     /\ Len(r.out) = 1 /\ isBotPresence(r.out[1], "leave")
     /\ r.clients = s.clients /\ r.nextId = s.nextId

\* The globals with no session registered, and with one more session than now.
GlobalsEmptied == [Globals EXCEPT !.clients = << >>]
GlobalsCrowded ==
  [Globals EXCEPT !.clients = Append(@, [ws |-> NoSocket, id |-> nextId,
                                         name |-> defaultName(nextId)]),
                  !.readyState = [w \in Sockets \cup {NoSocket} |->
                                    IF w = NoSocket THEN "OPEN" ELSE readyState[w]]]

\* C16: a firing of the idle timer while the Bot is Active and exactly one real
\* session is registered emits exactly one chat event of the Bot whose body is
\* one of the four prompts, no presence event, and leaves the registry, the Bot
\* state and the timer unchanged; the callback run on the same globals with a
\* number of real sessions other than 1 deactivates the Bot (interval cancelled,
\* presence(leave) of the Bot emitted) and emits no prompt.
C16_IdleTick ==
  [][ AfterTimer' =>
        /\ (botActive /\ RealCount(clients) = 1) =>
              /\ Len(out') = 1
              /\ out'[1].obj.type = "chat" /\ out'[1].obj.from = BOT
              /\ out'[1].obj.body \in PromptBodies
              /\ out'[1].via = "broadcast" /\ Recipients(out'[1]) = OpenIn(clients)
              /\ UNCHANGED <<readyState, clients, nextId, botActive, botIdleTimer, timers>>
        /\ botActive =>
              \A p \in 1..Len(prompts) :
                TickDeactivates(GlobalsEmptied, p) /\ TickDeactivates(GlobalsCrowded, p)
    ]_vars

\* C16 witness: the timer fired for a solo session and the Bot said "Try: /ping".
C16_Witness ==
  /\ AfterTimer /\ botActive /\ RealCount(clients) = 1
  /\ Len(out) = 1 /\ out[1].obj.from = BOT /\ out[1].obj.body = prompts[3]
  /\ botIdleTimer \in timers

(***************************************************************************)
(* C17                                                                     *)
(***************************************************************************)
\* C17: whenever the idle timer callback runs, the Bot is Active and exactly one
\* real session is registered, so neither its early return nor its deactivation
\* branch is taken; as long as an interval is scheduled the same holds, and the
\* scheduled interval is the one botIdleTimer names.
C17_TimerOnlyWhileSolo ==
  [][ /\ AfterTimer' => (botActive /\ RealCount(clients) = 1)
      /\ timers' # {} => (botActive' /\ RealCount(clients') = 1 /\ timers' = {botIdleTimer'})
    ]_vars

\* C17 witness: the callback ran after a second session had come and gone: the
\* Bot had been deactivated and re-activated for the session that stayed.
C17_Witness ==
  /\ AfterTimer /\ nextId > 2 /\ Len(clients) = 1 /\ Len(out) = 1
  /\ soloStarts[clients[1].id] = 2

(***************************************************************************)
(* C18                                                                     *)
(***************************************************************************)
\* The action of the Bot's presence event that came before event i of evs:
\* the last one of the earlier handlers when i is the first of this one.
BotPresenceBefore(evs, i, before) ==
  LET earlier == {j \in botPresenceIdx(evs) : j < i}
  IN IF earlier = {} THEN before ELSE evs[Last(earlier)].obj.action

\* C18: the presence events of the Bot alternate, starting with a join: each
\* join follows a leave or nothing, each leave follows a join; a join is
\* emitted only by a handler step in which the Bot goes from Inactive to
\* Active, a leave only from Active to Inactive, and the Bot's state changes
\* with no presence event at no time.
C18_BotPresenceAlternates ==
  [][ /\ \A i \in botPresenceIdx(out') :
            LET prev == BotPresenceBefore(out', i, lastBotPresence)
                first == \A j \in botPresenceIdx(out') : i <= j
            IN /\ out'[i].obj.action \in {"join", "leave"}
               /\ out'[i].obj.action = "join" =>
                     /\ prev \in {"none", "leave"}
                     /\ out'[i].botAt
                     /\ first => ~botActive
               /\ out'[i].obj.action = "leave" =>
                     /\ prev = "join"
                     /\ ~out'[i].botAt
                     /\ first => botActive
      /\ botPresenceIdx(out') = {} => botActive' = botActive
      /\ botActive' <=> (lastBotPresence' = "join")
    ]_vars

\* C18 witness: a disconnect left one session alone again and the Bot joined,
\* after it had left when that session got company.
C18_Witness ==
  /\ AfterClose /\ Len(clients) = 1 /\ soloStarts[clients[1].id] = 2
  /\ botPresenceCount(out, "join") = 1 /\ lastBotPresence = "join" /\ botActive

(***************************************************************************)
(* C19                                                                     *)
(***************************************************************************)
\* C19: at the end of every connect, disconnect and set_name handler, for every
\* registered connection that is OPEN, the roster of the last roster-carrying
\* event sent to it is the current roster view: the registered sessions, with
\* the Bot first if and only if the Bot is Active.
C19_ViewsConverge ==
  (AfterConnect \/ AfterClose \/ AfterSetName) =>
    \A ws \in OpenIn(clients) : lastRoster[ws] = RosterView(clients, botActive)

\* C19 witness: one of two OPEN sessions renamed itself to "Al"; both hold the
\* roster with the new name and without the Bot.
C19_Witness ==
  /\ AfterSetName /\ Cardinality(OpenIn(clients)) = 2 /\ ~botActive
  /\ get(Globals, handler.ws).name = <<"A", "l">>
  /\ \A ws \in OpenIn(clients) :
        lastRoster[ws] = RosterView(clients, botActive) /\ handler.ws \in OpenIn(clients)

====
